---- MODULE Spec2Model ----
(***************************************************************************)
(* Model of the webhook relay of siu-autotrade-gui (src/server.py) and of  *)
(* the order helpers of its exchange client (src/bitget_client.py).        *)
(*                                                                         *)
(* The server is a single asyncio event loop: a coroutine runs until it    *)
(* awaits something that suspends it (a contended lock, asyncio.sleep).    *)
(* `running` names the coroutine that owns the loop; every step of a       *)
(* coroutine is one action, and another coroutine steps only when the      *)
(* loop is free.  Calls into the exchange client are synchronous: each is  *)
(* one action whose outcome is chosen by the exchange.                     *)
(*                                                                         *)
(* Quantities are integers in units of 1e-7 (a tenth of the sixth decimal  *)
(* place), prices are integers, the backoff is kept in units of 0.1 ms.    *)
(***************************************************************************)
EXTENDS Integers, Sequences, FiniteSets, TLC

\* ------------------------------------------------------------------ bounds
\* A position size below the sixth decimal place (0.0000003).
Dust == 3
\* A position size on the sixth decimal place (0.000002).
Lot == 20
\* The quantity a directive asks to open (0.000001).
ReqQty == 10
\* Average entry price reported for a held leg.
AvgPx == 100

\* The longest argument of normalize_symbol, in pieces of SymbolPieces.
MaxPieces == 3

\* The most orders one DemoExchange is given.
MaxOrders == 3

\* ------------------------------------------------------- program constants
max_retry == 10
BackoffStart == 3000
BackoffCap == 12000
\* TP_PERCENT = 0.07, as a percentage.
TP_PERCENT == 7
\* BitgetClient._request: max_retry = 4, backoff 0.25 s doubling up to 1.5 s.
request_max_retry == 4
RequestBackoffStart == 2500
RequestBackoffCap == 15000
\* DemoExchange.__init__: mark_price = 100.0
mark_price == 100

Handlers == {"h1", "h2"}
TP == "tp"
None == "none"

Sizes == {0, Dust, Lot}
AvgPrices == {0, AvgPx}
\* Last prices: one 10 % under and one 10 % over the average entry price.
LastPrices == {(AvgPx * 9) \div 10, (AvgPx * 11) \div 10}

\* What a call into BitgetClient can end with: the parsed 2xx body, a
\* requests.HTTPError (raise_for_status), another requests.RequestException
\* (ConnectionError / Timeout after the retries), or an exception that is no
\* RequestException (urllib3 ProtocolError, RuntimeError).
Outcomes == {"ok", "http", "conn", "other"}
IsRequestException(o) == o \in {"http", "conn"}

\* ------------------------------------------------------------------ strings
\* A Python string is a sequence of one-character strings.
LowerChars == <<"a","b","c","d","e","f","g","h","i","j","k","l","m",
                "n","o","p","q","r","s","t","u","v","w","x","y","z">>
UpperChars == <<"A","B","C","D","E","F","G","H","I","J","K","L","M",
                "N","O","P","Q","R","S","T","U","V","W","X","Y","Z">>

UpperChar(c) ==
  IF \E i \in 1..26 : LowerChars[i] = c
  THEN UpperChars[CHOOSE i \in 1..26 : LowerChars[i] = c]
  ELSE c

upper(s) == [i \in 1..Len(s) |-> UpperChar(s[i])]

IsSpace(c) == c \in {" ", "\t", "\n"}

RECURSIVE lstrip(_)
lstrip(s) == IF s # <<>> /\ IsSpace(Head(s)) THEN lstrip(Tail(s)) ELSE s

RECURSIVE rstrip(_)
rstrip(s) ==
  IF s # <<>> /\ IsSpace(s[Len(s)]) THEN rstrip(SubSeq(s, 1, Len(s) - 1)) ELSE s

strip(s) == rstrip(lstrip(s))

endswith(s, suffix) ==
  /\ Len(s) >= Len(suffix)
  /\ SubSeq(s, Len(s) - Len(suffix) + 1, Len(s)) = suffix

S_UMCBL == <<"_","U","M","C","B","L">>
S_DOT_P == <<".","P">>
S_USDT == <<"U","S","D","T">>
S_BTCUSDT_UMCBL == <<"B","T","C","U","S","D","T">> \o S_UMCBL

normalize_symbol(sym) ==
  IF sym = <<>> THEN S_BTCUSDT_UMCBL
  ELSE LET s == upper(strip(sym))
           t == IF endswith(s, S_DOT_P) THEN SubSeq(s, 1, Len(s) - 2) ELSE s
       IN  IF endswith(s, S_UMCBL) THEN s
           ELSE IF endswith(t, S_USDT) THEN t \o S_UMCBL
           ELSE t

\* f"{q:.6f}" with the trailing zeros stripped: q rounded to the sixth
\* decimal place, in units of 1e-7 the nearest multiple of 10.  (A size
\* exactly half way rounds by its binary representation, 5e-7 down; no size
\* of the model is half way.)
_fmt_qty(q) ==
  LET r == q % 10
  IN  IF r <= 5 THEN q - r ELSE q - r + 10

\* ---------------------------------------------------------- exchange client
\* BitgetClient._map_side_for_hedge
_map_side_for_hedge(logical_side, reduce_only) ==
  IF ~reduce_only
  THEN (IF logical_side = "buy" THEN "open_long" ELSE "open_short")
  ELSE (IF logical_side = "buy" THEN "close_short" ELSE "close_long")

\* An order that is always sent reduce-only.
place_order_reduce_only(tv_symbol, side, order_type, size, reduce_only) ==
  [symbol |-> tv_symbol, side |-> _map_side_for_hedge(side, TRUE),
   orderType |-> order_type, size |-> size, reduceOnly |-> TRUE]

\* BitgetClient.place_order / _send_place_order: the body of the request.
place_order(tv_symbol, side, order_type, size, reduce_only) ==
  [symbol |-> tv_symbol, side |-> _map_side_for_hedge(side, reduce_only),
   orderType |-> order_type, size |-> size, reduceOnly |-> reduce_only]

open_long(symbol, size, order_type) ==
  place_order(symbol, "buy", order_type, size, FALSE)
open_short(symbol, size, order_type) ==
  place_order(symbol, "sell", order_type, size, FALSE)
close_long(symbol, size) ==
  place_order(symbol, "sell", "market", size, TRUE)
close_short(symbol, size) ==
  place_order(symbol, "buy", "market", size, TRUE)

\* -------------------------------------------------------------------- state
VARIABLES
  running,         \* the coroutine that owns the event loop, or None
  pc,              \* where each /tv handler is
  loc,             \* the locals of each /tv handler and its ensure_close_full
  response,        \* what each handler answered
  hist,            \* per handler: the gateway calls made for its directive
  observed,        \* the handlers whose hist is kept
  _symbol_locks,   \* canonical symbol -> asyncio.Lock
  _watch_symbols,  \* the symbols the take-profit monitor polls
  tp,              \* the locals of tp_monitor_loop
  lastCall,        \* the call into the exchange client that the latest
                   \* step made, NoCall when it made none
  req,             \* the locals of one call of BitgetClient._request
  norm,            \* one call of normalize_symbol: its argument and result
  TRADE_MODE,      \* os.environ TRADE_MODE, read once when the module loads
  demo             \* the DemoExchange instance DEMO of bitget.py

\* The state of the server: the /tv handlers and the take-profit monitor.
serverVars == <<running, pc, loc, response, hist, observed, _symbol_locks,
                _watch_symbols, tp, lastCall>>

\* The state no step of the server changes: the mode read at start-up and the
\* state of what is run on its own.
unitVars == <<req, norm, TRADE_MODE, demo>>

vars == <<running, pc, loc, response, hist, observed, _symbol_locks,
          _watch_symbols, tp, lastCall, req, norm, TRADE_MODE, demo>>

WEBHOOK_SECRET == "s3cret"

\* ------------------------------------------------------------------- inputs
S_BTC_P == <<"B","T","C","U","S","D","T",".","P">>
S_btc == <<" ","b","t","c","u","s","d","t">>
S_ETH == <<"E","T","H","U","S","D","T">>

\* str.upper() / str.lower() of the field values the model sends.
UpperOf(t) ==
  CASE t = "buy" -> "BUY" [] t = "sell" -> "SELL" [] t = "hold" -> "HOLD"
    [] OTHER -> t
LowerOf(t) ==
  CASE t = "MARKET" -> "market" [] t = "LIMIT" -> "limit"
    [] t = "Bitget" -> "bitget" [] OTHER -> t

\* A well-formed directive, and the ways one field of it can be wrong.
GoodPayload(sym, route, side) ==
  [json |-> TRUE, secret |-> WEBHOOK_SECRET, route |-> route,
   exchange |-> "Bitget", symbol |-> sym, target_side |-> side,
   type |-> "MARKET", size |-> ReqQty]

ValidPayloads(syms) ==
  { GoodPayload(sym, route, side) :
      sym \in syms, route \in {"order.open", "order.reverse"},
      side \in {"BUY", "SELL", "sell"} }

InvalidPayloads(syms) ==
  LET base == { GoodPayload(sym, route, "BUY") :
                  sym \in syms, route \in {"order.open", "order.reverse"} }
  IN  UNION { { [p EXCEPT !.json = FALSE],
                [p EXCEPT !.secret = "wrong"],
                [p EXCEPT !.exchange = "binance"],
                [p EXCEPT !.route = "order.close"],
                [p EXCEPT !.target_side = "hold"],
                [p EXCEPT !.type = "LIMIT"],
                [p EXCEPT !.size = 0] } : p \in base }

OneSymbol == {S_BTC_P, S_btc}
Payloads == ValidPayloads(OneSymbol) \cup InvalidPayloads({S_BTC_P})

\* ------------------------------------------------------------------ records
NoLoc ==
  [route |-> "", symbol |-> <<>>, target_side |-> "", order_type |-> "",
   size |-> 0, d |-> <<>>, attempt |-> 0, backoff |-> 0,
   long_sz |-> 0, short_sz |-> 0, long2 |-> 0, short2 |-> 0,
   close_res |-> "", last_detail |-> ""]

NoOrder ==
  [symbol |-> <<>>, side |-> "", orderType |-> "", size |-> 0,
   reduceOnly |-> FALSE]

\* What a directive did so far: whether it called the gateway, whether a
\* position read succeeded, whether every call succeeded, how many close and
\* open orders it sent, the latest of each, and how many close orders had
\* been sent when the open order was, and the long and short sizes of its
\* latest successful position read.
NoHist ==
  [called |-> FALSE, readOk |-> FALSE, allOk |-> TRUE,
   nClose |-> 0, close |-> NoOrder, nOpen |-> 0, open |-> NoOrder,
   openAfter |-> 0, lastRead |-> <<>>]

NoResponse == [kind |-> "", ok |-> FALSE, error |-> "", status |-> 0, detail |-> ""]

NoTp ==
  [pc |-> "sleep", todo |-> {}, sym |-> <<>>, long_sz |-> 0, short_sz |-> 0,
   long_avg |-> 0, short_avg |-> 0, last |-> 0]

NoCall ==
  [by |-> None, line |-> 0, op |-> "", symbol |-> <<>>, side |-> "",
   orderType |-> "", size |-> 0, reduceOnly |-> FALSE, outcome |-> "",
   long |-> 0, short |-> 0]

\* _request before its loop: no attempt made, nothing returned or raised.
NoReq ==
  [pc |-> "idle", attempt |-> 0, backoff |-> 0, last_exc |-> "",
   slept |-> 0, raised |-> "", log |-> <<>>]

\* No call of normalize_symbol made.
NoNorm == [pc |-> "idle", sym |-> <<>>, out |-> <<>>, again |-> <<>>]

\* DemoExchange.__init__: no position, no order, no fill.
NoDemo == [positions |-> << >>, orders |-> <<>>, fills |-> <<>>]

\* A position read, as the exchange client saw it.
ReadCall(who, line, sym, o, l, s) ==
  [NoCall EXCEPT !.by = who, !.line = line,
                 !.op = "get_hedge_detail", !.symbol = sym, !.outcome = o,
                 !.long = l, !.short = s]

\* An order, as the exchange client sent it.
OrderCall(who, line, order, o) ==
  [NoCall EXCEPT !.by = who, !.line = line,
                 !.op = "place_order", !.symbol = order.symbol,
                 !.side = order.side, !.orderType = order.orderType,
                 !.size = order.size, !.reduceOnly = order.reduceOnly,
                 !.outcome = o]

PriceCall(who, line, sym, o) ==
  [NoCall EXCEPT !.by = who, !.line = line,
                 !.op = "get_last_price", !.symbol = sym, !.outcome = o]

\* The state of the server after the module is loaded; hist is kept for the
\* handlers obs.
InitServer(obs) ==
  /\ observed = obs
  /\ running = None
  /\ pc = [h \in Handlers |-> "idle"]
  /\ loc = [h \in Handlers |-> NoLoc]
  /\ response = [h \in Handlers |-> NoResponse]
  /\ hist = [h \in Handlers |-> NoHist]
  /\ _symbol_locks = << >>
  /\ _watch_symbols = {}
  /\ tp = NoTp
  /\ lastCall = NoCall

\* The state after the module is loaded, no function running on its own.
InitObserving(obs) ==
  /\ InitServer(obs)
  /\ TRADE_MODE = "live"
  /\ req = NoReq
  /\ norm = NoNorm
  /\ demo = NoDemo

Init == InitObserving({"h1"})

\* -------------------------------------------------------------------- locks
\* asyncio.Lock(): a new lock object, free, nobody waiting.  id tells the
\* lock objects apart.
NewLock(id) == [id |-> id, locked |-> FALSE, waiters |-> <<>>]

\* A map that hands out a new lock object on every call.
symbol_lock_fresh(locks, symbol) ==
  [s \in DOMAIN locks \cup {symbol} |->
     IF s = symbol
     THEN NewLock(IF s \in DOMAIN locks THEN locks[s].id + 1
                  ELSE Cardinality(DOMAIN locks))
     ELSE locks[s]]

\* symbol_lock: the lock of a symbol is created on first use.
symbol_lock(locks, symbol) ==
  IF symbol \in DOMAIN locks THEN locks
  ELSE [s \in DOMAIN locks \cup {symbol} |->
          IF s = symbol THEN NewLock(Cardinality(DOMAIN locks))
          ELSE locks[s]]

\* A lock that never makes anybody wait.
LockFreeAlways(lock) == TRUE

\* One lock for all symbols: a lock is free when no lock at all is held or
\* awaited.
LockFreeGlobal(lock) ==
  \A s \in DOMAIN _symbol_locks :
    ~_symbol_locks[s].locked /\ _symbol_locks[s].waiters = <<>>

\* asyncio.Lock.acquire takes a lock at once when it is free and nobody waits.
LockFree(lock) == ~lock.locked /\ lock.waiters = <<>>

\* A lock that is kept when its holder leaves.
ReleasedNever(locks, symbol) == locks

\* asyncio.Lock.release: the lock is free again; the first waiter is woken.
Released(locks, symbol) == [locks EXCEPT ![symbol].locked = FALSE]

\* The pcs of a handler that is inside `async with symbol_lock(symbol)`.
SectionPcs ==
  {"dispatch", "open_read", "open_order", "ecf_read", "ecf_close",
   "ecf_sleep1", "ecf_slept1", "ecf_sleep2", "ecf_slept2", "ecf_reread",
   "rev_open"}

InSection(h) == pc[h] \in SectionPcs

\* ---------------------------------------------------------------- responses
\* JSONResponse({"ok": False, "error": error, ...}, status_code=status)
Rejected(error, status) ==
  [kind |-> "json", ok |-> FALSE, error |-> error, status |-> status,
   detail |-> ""]

\* return {"ok": True, ...}
Accepted ==
  [kind |-> "json", ok |-> TRUE, error |-> "", status |-> 200, detail |-> ""]

\* An exception that leaves tv: the framework answers 500 with no JSON body.
Raised ==
  [kind |-> "raised", ok |-> FALSE, error |-> "", status |-> 500,
   detail |-> ""]

\* The failed close reported as any other exception of the route.
CloseFailedAsException(close_res) ==
  [kind |-> "json", ok |-> FALSE, error |-> "exception", status |-> 500,
   detail |-> ""]

\* tv, lines 294-296 and 301-303: the answer to a close that did not get flat.
CloseFailed(close_res) ==
  [kind |-> "json", ok |-> FALSE, error |-> "close-failed", status |-> 500,
   detail |-> close_res]

\* The handler returns (or raises) inside `async with`: the lock is released
\* and r is on its way to the caller.
Finish(h, r) ==
  /\ response' = [response EXCEPT ![h] = r]
  /\ pc' = [pc EXCEPT ![h] = "done"]
  /\ _symbol_locks' = Released(_symbol_locks, loc[h].symbol)
  /\ UNCHANGED running

\* The history of a handler after one more gateway call with outcome o.
Called(hh, o) == [hh EXCEPT !.called = TRUE, !.allOk = @ /\ (o = "ok")]

\* The history after a position read with outcome o that reported the sizes
\* l and s.
ReadSizes(hh, o, l, s) ==
  IF o = "ok" THEN [hh EXCEPT !.lastRead = <<l, s>>] ELSE hh

\* hist with the history of handler h replaced by hh, when h is observed.
Record(h, hh) == IF h \in observed THEN [hist EXCEPT ![h] = hh] ELSE hist

\* A watch set that keeps the latest symbol only.
watch_latest(watch, symbol) == {symbol}

\* tv, lines 278 and 310: _watch_symbols.add(symbol)
watch_add(watch, symbol) == watch \cup {symbol}

\* ------------------------------------------------------------- tv: the entry
\* tv, lines 230-263: parse, authenticate, read the fields, take the lock.
Receive(h, p) ==
  /\ running = None
  /\ pc[h] = "idle"
  /\ lastCall' = NoCall
  /\ UNCHANGED <<hist, observed, _watch_symbols, tp>>
  /\ IF ~p.json
     THEN /\ response' = [response EXCEPT ![h] = Rejected("bad-json", 400)]
          /\ pc' = [pc EXCEPT ![h] = "done"]
          /\ running' = h
          /\ UNCHANGED <<loc, _symbol_locks>>
     ELSE IF p.secret # WEBHOOK_SECRET
     THEN /\ response' = [response EXCEPT ![h] = Rejected("unauthorized", 401)]
          /\ pc' = [pc EXCEPT ![h] = "done"]
          /\ running' = h
          /\ UNCHANGED <<loc, _symbol_locks>>
     ELSE
       LET symbol == normalize_symbol(strip(p.symbol))
           l == [NoLoc EXCEPT !.route = p.route, !.symbol = symbol,
                              !.target_side = UpperOf(p.target_side),
                              !.order_type = LowerOf(p.type),
                              !.size = p.size]
           locks == symbol_lock(_symbol_locks, symbol)
       IN  /\ loc' = [loc EXCEPT ![h] = l]
           /\ IF LowerOf(p.exchange) # "bitget"
              THEN /\ response' = [response EXCEPT
                                     ![h] = Rejected("unsupported-exchange", 400)]
                   /\ pc' = [pc EXCEPT ![h] = "done"]
                   /\ running' = h
                   /\ UNCHANGED _symbol_locks
              ELSE IF LockFree(locks[symbol])
              THEN /\ _symbol_locks' = [locks EXCEPT ![symbol].locked = TRUE]
                   /\ pc' = [pc EXCEPT ![h] = "dispatch"]
                   /\ running' = h
                   /\ UNCHANGED response
              ELSE /\ _symbol_locks' =
                        [locks EXCEPT ![symbol].waiters = Append(@, h)]
                   /\ pc' = [pc EXCEPT ![h] = "waiting"]
                   /\ UNCHANGED <<running, response>>
  /\ UNCHANGED unitVars

\* asyncio.Lock.acquire, resumed: the first waiter takes the released lock.
LockGranted(h) ==
  /\ running = None
  /\ pc[h] = "waiting"
  /\ LET lock == _symbol_locks[loc[h].symbol]
     IN  /\ ~lock.locked
         /\ lock.waiters # <<>>
         /\ Head(lock.waiters) = h
         /\ _symbol_locks' = [_symbol_locks EXCEPT
                                ![loc[h].symbol].locked = TRUE,
                                ![loc[h].symbol].waiters = Tail(@)]
  /\ pc' = [pc EXCEPT ![h] = "dispatch"]
  /\ running' = h
  /\ lastCall' = NoCall
  /\ UNCHANGED <<observed, loc, response, hist, _watch_symbols, tp>>
  /\ UNCHANGED unitVars

\* tv, lines 266, 290-293, 299-300, 306-307 and 327: the route.
Dispatch(h) ==
  /\ running = h
  /\ pc[h] = "dispatch"
  /\ lastCall' = NoCall
  /\ UNCHANGED <<observed, hist, _watch_symbols, tp>>
  /\ IF loc[h].route = "order.open"
     THEN /\ pc' = [pc EXCEPT ![h] = "open_read"]
          /\ UNCHANGED <<running, loc, response, _symbol_locks>>
     ELSE IF loc[h].route = "order.reverse"
     THEN IF loc[h].target_side \in {"BUY", "SELL"}
          THEN /\ loc' = [loc EXCEPT ![h].attempt = 1,
                                     ![h].backoff = BackoffStart]
               /\ pc' = [pc EXCEPT ![h] = "ecf_read"]
               /\ UNCHANGED <<running, response, _symbol_locks>>
          ELSE /\ Finish(h, Rejected("bad-target-side", 400))
               /\ UNCHANGED loc
     ELSE /\ Finish(h, Rejected("unsupported-route", 400))
          /\ UNCHANGED loc
  /\ UNCHANGED unitVars

\* The coroutine ends and its answer is sent: the event loop is free, and
\* the slot serves the next request.
Respond(h) ==
  /\ running = h
  /\ pc[h] = "done"
  /\ running' = None
  /\ pc' = [pc EXCEPT ![h] = "idle"]
  /\ loc' = [loc EXCEPT ![h] = NoLoc]
  /\ response' = [response EXCEPT ![h] = NoResponse]
  /\ hist' = [hist EXCEPT ![h] = NoHist]
  /\ lastCall' = NoCall
  /\ UNCHANGED <<observed, _symbol_locks, _watch_symbols, tp>>
  /\ UNCHANGED unitVars

\* ----------------------------------------------------------- tv: order.open
\* tv, line 268: d = bg.get_hedge_detail(symbol); lines 280-288 catch only
\* requests.HTTPError.
OpenRead(h) ==
  /\ running = h
  /\ pc[h] = "open_read"
  /\ \E o \in Outcomes, l \in Sizes, s \in Sizes :
       /\ o # "ok" => (l = 0 /\ s = 0)
       /\ lastCall' = ReadCall(h, 268, loc[h].symbol, o, l, s)
       /\ hist' = Record(h, ReadSizes([Called(hist[h], o) EXCEPT
                                         !.readOk = (o = "ok")], o, l, s))
       /\ IF o = "ok"
          THEN /\ loc' = [loc EXCEPT ![h].d = <<l, s>>]
               /\ pc' = [pc EXCEPT ![h] = "open_order"]
               /\ UNCHANGED <<running, response, _symbol_locks>>
          ELSE /\ UNCHANGED loc
               /\ IF o = "http"
                  THEN Finish(h, Rejected("bitget-http", 500))
                  ELSE Finish(h, Raised)
  /\ UNCHANGED <<observed, _watch_symbols, tp>>
  /\ UNCHANGED unitVars

\* The open order with the two sides taken for each other.
OpenOrderOfSwapped(l) ==
  IF l.target_side = "BUY"
  THEN open_short(l.symbol, l.size, l.order_type)
  ELSE open_long(l.symbol, l.size, l.order_type)

\* The open order of a directive: tv, lines 270-273, 297 and 304.
OpenOrderOf(l) ==
  IF l.target_side = "BUY"
  THEN open_long(l.symbol, l.size, l.order_type)
  ELSE open_short(l.symbol, l.size, l.order_type)

\* tv, lines 270-279.
OpenOrder(h) ==
  /\ running = h
  /\ pc[h] = "open_order"
  /\ UNCHANGED <<observed, loc, tp>>
  /\ IF loc[h].target_side \notin {"BUY", "SELL"}
     THEN /\ Finish(h, Rejected("bad-target-side", 400))
          /\ lastCall' = NoCall
          /\ UNCHANGED <<hist, _watch_symbols>>
     ELSE \E o \in Outcomes :
            /\ lastCall' = OrderCall(h, 271, OpenOrderOf(loc[h]), o)
            /\ hist' = Record(h, [Called(hist[h], o) EXCEPT
                                   !.nOpen = @ + 1,
                                   !.open = OpenOrderOf(loc[h]),
                                   !.openAfter = hist[h].nClose])
            /\ IF o = "ok"
               THEN /\ _watch_symbols' = watch_add(_watch_symbols, loc[h].symbol)
                    /\ Finish(h, Accepted)
               ELSE /\ UNCHANGED _watch_symbols
                    /\ IF o = "http"
                       THEN Finish(h, Rejected("bitget-http", 500))
                       ELSE Finish(h, Raised)
  /\ UNCHANGED unitVars

\* -------------------------------------------------------- ensure_close_full
\* tv, lines 293 and 300: BUY closes the short leg, SELL the long leg.
SideToClose(target_side) == IF target_side = "BUY" THEN "SHORT" ELSE "LONG"

\* The size of the leg to close among the two sizes of a position read.
LegSize(side_to_close, long_sz, short_sz) ==
  IF side_to_close = "LONG" THEN long_sz ELSE short_sz

\* A backoff that grows without a cap.
NextBackoffUncapped(backoff) == (backoff * 3) \div 2

\* ensure_close_full, lines 111 and 154: backoff = min(backoff * 1.5, 1.2)
NextBackoff(backoff) ==
  IF (backoff * 3) \div 2 < BackoffCap THEN (backoff * 3) \div 2 ELSE BackoffCap

\* ensure_close_full, line 103: the loop runs attempts 1 .. max_retry.
Exhausted(attempt) == attempt > max_retry

\* The end of one attempt (`continue`, or the end of the loop body): the
\* next attempt, or line 156 when there is none.  Every attempt assigns
\* long_sz, short_sz, long2 and short2 before it reads them, so the sizes of
\* the attempt that ended are dropped here.
NextAttempt(h, l) ==
  LET n == [l EXCEPT !.long_sz = 0, !.short_sz = 0, !.long2 = 0, !.short2 = 0]
  IN  IF Exhausted(l.attempt + 1)
      THEN /\ loc' = [loc EXCEPT ![h] =
                        [n EXCEPT !.close_res = "close_not_flat"]]
           /\ pc' = [pc EXCEPT ![h] = "rev_open"]
      ELSE /\ loc' = [loc EXCEPT ![h] = [n EXCEPT !.attempt = @ + 1]]
           /\ pc' = [pc EXCEPT ![h] = "ecf_read"]

\* ensure_close_full, lines 104-112: the position read of an attempt.
EcfRead(h) ==
  /\ running = h
  /\ pc[h] = "ecf_read"
  /\ \E o \in Outcomes, l \in Sizes, s \in Sizes :
       /\ o # "ok" => (l = 0 /\ s = 0)
       /\ lastCall' = ReadCall(h, 105, loc[h].symbol, o, l, s)
       /\ hist' = Record(h, ReadSizes([Called(hist[h], o) EXCEPT
                                         !.readOk = @ \/ (o = "ok")], o, l, s))
       /\ IF o = "ok"
          THEN /\ loc' = [loc EXCEPT ![h].long_sz = l, ![h].short_sz = s]
               /\ pc' = [pc EXCEPT ![h] = "ecf_close"]
               /\ UNCHANGED running
          ELSE /\ pc' = [pc EXCEPT ![h] = "ecf_sleep1"]
               /\ UNCHANGED <<running, loc>>
  /\ UNCHANGED <<observed, response, _symbol_locks, _watch_symbols, tp>>
  /\ UNCHANGED unitVars

\* ensure_close_full, lines 110 and 140: await sleep_ms(int(backoff * 1000))
\* suspends the handler; the event loop is free while it sleeps.
EcfSleep(h) ==
  /\ running = h
  /\ pc[h] \in {"ecf_sleep1", "ecf_sleep2"}
  /\ pc' = [pc EXCEPT ![h] = IF @ = "ecf_sleep1" THEN "ecf_slept1"
                                               ELSE "ecf_slept2"]
  /\ running' = None
  /\ lastCall' = NoCall
  /\ UNCHANGED <<observed, loc, response, hist, _symbol_locks,
                 _watch_symbols, tp>>
  /\ UNCHANGED unitVars

\* ensure_close_full, lines 110-112: the sleep after a failed read is over.
EcfReadRetry(h) ==
  /\ running = None
  /\ pc[h] = "ecf_slept1"
  /\ running' = h
  /\ NextAttempt(h, [loc[h] EXCEPT !.backoff = NextBackoff(@)])
  /\ lastCall' = NoCall
  /\ UNCHANGED <<observed, response, hist, _symbol_locks, _watch_symbols, tp>>
  /\ UNCHANGED unitVars

\* The close order sized by the quantity the directive asks to open.
CloseQtyRequested(l) == l.size

\* ensure_close_full, lines 123 and 127: the quantity of the close order.
CloseQty(l) ==
  _fmt_qty(LegSize(SideToClose(l.target_side), l.long_sz, l.short_sz))

\* The close order of the leg that was not asked for.
CloseOrderOfOther(l) ==
  IF SideToClose(l.target_side) = "LONG"
  THEN close_short(l.symbol, CloseQty(l))
  ELSE close_long(l.symbol, CloseQty(l))

\* ensure_close_full, lines 120-127: the close order of a leg.
CloseOrderOf(l) ==
  IF SideToClose(l.target_side) = "LONG"
  THEN close_long(l.symbol, CloseQty(l))
  ELSE close_short(l.symbol, CloseQty(l))

\* ensure_close_full, lines 121 and 125: nothing to close.
AlreadyZero(l) ==
  LegSize(SideToClose(l.target_side), l.long_sz, l.short_sz) <= 0

\* ensure_close_full, lines 119-140: skip, or send the reduce-only close and
\* sleep.  Only a requests.RequestException of the order is caught.
EcfClose(h) ==
  /\ running = h
  /\ pc[h] = "ecf_close"
  /\ UNCHANGED <<observed, _watch_symbols, tp>>
  /\ IF AlreadyZero(loc[h])
     THEN /\ loc' = [loc EXCEPT ![h].close_res = "already_zero"]
          /\ pc' = [pc EXCEPT ![h] = "rev_open"]
          /\ lastCall' = NoCall
          /\ UNCHANGED <<running, response, hist, _symbol_locks>>
     ELSE \E o \in Outcomes :
            /\ lastCall' = OrderCall(h, 123, CloseOrderOf(loc[h]), o)
            /\ hist' = Record(h, [Called(hist[h], o) EXCEPT
                                   !.nClose = @ + 1,
                                   !.close = CloseOrderOf(loc[h])])
            /\ IF o = "ok" \/ IsRequestException(o)
               THEN /\ loc' = [loc EXCEPT ![h].last_detail =
                                            IF o = "ok" THEN @ ELSE o]
                    /\ pc' = [pc EXCEPT ![h] = "ecf_sleep2"]
                    /\ UNCHANGED <<running, response, _symbol_locks>>
               ELSE /\ Finish(h, Rejected("exception", 500))
                    /\ UNCHANGED loc
  /\ UNCHANGED unitVars

\* ensure_close_full, line 140: the sleep before the re-check is over.
EcfWake(h) ==
  /\ running = None
  /\ pc[h] = "ecf_slept2"
  /\ running' = h
  /\ pc' = [pc EXCEPT ![h] = "ecf_reread"]
  /\ lastCall' = NoCall
  /\ UNCHANGED <<observed, loc, response, hist, _symbol_locks,
                 _watch_symbols, tp>>
  /\ UNCHANGED unitVars

\* A failed re-read taken for a read of zero.
RereadFailedZero(before) == 0

\* ensure_close_full, lines 145-147: a failed re-read keeps the sizes read
\* before the close.
RereadFailed(before) == before

\* A re-check that takes the close order for the evidence.
IsFlatAlways(side_to_close, long2, short2) == TRUE

\* ensure_close_full, lines 149-152: the leg is flat.
IsFlat(side_to_close, long2, short2) ==
  LegSize(side_to_close, long2, short2) <= 0

\* ensure_close_full, lines 141-154: the re-read after the close.
EcfReread(h) ==
  /\ running = h
  /\ pc[h] = "ecf_reread"
  /\ \E o \in Outcomes, l \in Sizes, s \in Sizes :
       /\ o # "ok" => (l = 0 /\ s = 0)
       /\ lastCall' = ReadCall(h, 142, loc[h].symbol, o, l, s)
       /\ hist' = Record(h, ReadSizes([Called(hist[h], o) EXCEPT
                                         !.readOk = @ \/ (o = "ok")], o, l, s))
       /\ LET long2 == IF o = "ok" THEN l ELSE RereadFailed(loc[h].long_sz)
              short2 == IF o = "ok" THEN s ELSE RereadFailed(loc[h].short_sz)
          IN  IF IsFlat(SideToClose(loc[h].target_side), long2, short2)
              THEN /\ loc' = [loc EXCEPT ![h].long2 = long2,
                                         ![h].short2 = short2,
                                         ![h].close_res = "flat"]
                   /\ pc' = [pc EXCEPT ![h] = "rev_open"]
              ELSE NextAttempt(h, [loc[h] EXCEPT !.backoff = NextBackoff(@)])
  /\ UNCHANGED <<observed, running, response, _symbol_locks,
                 _watch_symbols, tp>>
  /\ UNCHANGED unitVars

\* --------------------------------------------------------- tv: order.reverse
\* A handler that does not look at the result of the close.
CloseOkAlways(close_res) == TRUE

\* tv, lines 294 and 301: close_res.get("ok")
CloseOk(close_res) == close_res \in {"already_zero", "flat"}

\* tv, lines 294-325: abort when the close did not get flat, else open.
RevOpen(h) ==
  /\ running = h
  /\ pc[h] = "rev_open"
  /\ UNCHANGED <<observed, loc, tp>>
  /\ IF ~CloseOk(loc[h].close_res)
     THEN /\ Finish(h, CloseFailed(loc[h].close_res))
          /\ lastCall' = NoCall
          /\ UNCHANGED <<hist, _watch_symbols>>
     ELSE \E o \in Outcomes :
            /\ lastCall' = OrderCall(h, 297, OpenOrderOf(loc[h]), o)
            /\ hist' = Record(h, [Called(hist[h], o) EXCEPT
                                   !.nOpen = @ + 1,
                                   !.open = OpenOrderOf(loc[h]),
                                   !.openAfter = hist[h].nClose])
            /\ IF o = "ok"
               THEN /\ _watch_symbols' = watch_add(_watch_symbols, loc[h].symbol)
                    /\ Finish(h, Accepted)
               ELSE /\ UNCHANGED _watch_symbols
                    /\ IF o = "http"
                       THEN Finish(h, Rejected("bitget-http", 500))
                       ELSE Finish(h, Rejected("exception", 500))
  /\ UNCHANGED unitVars

\* ------------------------------------------------------- tp_monitor_loop
\* tp_monitor_loop, lines 186-187 and 194-195: gain / avg >= TP_PERCENT
TakeProfit(gain, avg) == gain * 100 >= TP_PERCENT * avg

\* A poller that takes any leg for an open one.
HasLegAlways(sz, avg) == TRUE

\* tp_monitor_loop, lines 185 and 193: the leg is open and has an entry price.
HasLeg(sz, avg) == sz > 0 /\ avg > 0

\* `continue`, or the end of the body, of the loop over the watched symbols.
TpContinue == [NoTp EXCEPT !.pc = "next", !.todo = tp.todo]

\* tp_monitor_loop, lines 168-170: the sleep is over; a pass over a snapshot
\* of the watched symbols starts.
TpWake ==
  /\ running = None
  /\ tp.pc = "sleep"
  /\ running' = TP
  /\ tp' = [NoTp EXCEPT !.pc = "next", !.todo = _watch_symbols]
  /\ lastCall' = NoCall
  /\ UNCHANGED <<observed, pc, loc, response, hist, _symbol_locks,
                 _watch_symbols>>
  /\ UNCHANGED unitVars

\* tp_monitor_loop, lines 170-180: the position read of the next symbol.
TpRead ==
  /\ running = TP
  /\ tp.pc = "next"
  /\ \E sym \in tp.todo, o \in Outcomes, l \in Sizes, s \in Sizes,
        la \in AvgPrices, sa \in AvgPrices :
       /\ o # "ok" => (l = 0 /\ s = 0 /\ la = 0 /\ sa = 0)
       /\ lastCall' = ReadCall(TP, 172, sym, o, l, s)
       /\ IF o = "ok" /\ ~(l <= 0 /\ s <= 0)
          THEN tp' = [pc |-> "price", todo |-> tp.todo \ {sym}, sym |-> sym,
                      long_sz |-> l, short_sz |-> s, long_avg |-> la,
                      short_avg |-> sa, last |-> 0]
          ELSE tp' = [TpContinue EXCEPT !.todo = tp.todo \ {sym}]
  /\ UNCHANGED <<observed, running, pc, loc, response, hist, _symbol_locks,
                 _watch_symbols>>
  /\ UNCHANGED unitVars

\* tp_monitor_loop, line 182: last = bg.get_last_price(sym)
TpPrice ==
  /\ running = TP
  /\ tp.pc = "price"
  /\ \E o \in Outcomes, last \in LastPrices :
       /\ lastCall' = PriceCall(TP, 182, tp.sym, o)
       /\ IF o = "ok"
          THEN tp' = [tp EXCEPT !.pc = "long", !.last = last]
          ELSE tp' = TpContinue
  /\ UNCHANGED <<observed, running, pc, loc, response, hist, _symbol_locks,
                 _watch_symbols>>
  /\ UNCHANGED unitVars

\* tp_monitor_loop, lines 185-190: take the profit of the long leg.
TpLong ==
  /\ running = TP
  /\ tp.pc = "long"
  /\ IF /\ HasLeg(tp.long_sz, tp.long_avg)
        /\ TakeProfit(tp.last - tp.long_avg, tp.long_avg)
     THEN \E o \in Outcomes :
            /\ lastCall' =
                 OrderCall(TP, 190, close_long(tp.sym, _fmt_qty(tp.long_sz)), o)
            /\ IF o = "ok"
               THEN tp' = [tp EXCEPT !.pc = "short"]
               ELSE tp' = TpContinue
     ELSE /\ tp' = [tp EXCEPT !.pc = "short"]
          /\ lastCall' = NoCall
  /\ UNCHANGED <<observed, running, pc, loc, response, hist, _symbol_locks,
                 _watch_symbols>>
  /\ UNCHANGED unitVars

\* tp_monitor_loop, lines 193-198: take the profit of the short leg.
TpShort ==
  /\ running = TP
  /\ tp.pc = "short"
  /\ IF /\ HasLeg(tp.short_sz, tp.short_avg)
        /\ TakeProfit(tp.short_avg - tp.last, tp.short_avg)
     THEN \E o \in Outcomes :
            lastCall' =
              OrderCall(TP, 198, close_short(tp.sym, _fmt_qty(tp.short_sz)), o)
     ELSE lastCall' = NoCall
  /\ tp' = TpContinue
  /\ UNCHANGED <<observed, running, pc, loc, response, hist, _symbol_locks,
                 _watch_symbols>>
  /\ UNCHANGED unitVars

\* tp_monitor_loop, line 203: the pass is over; await asyncio.sleep(...)
TpSleep ==
  /\ running = TP
  /\ tp.pc = "next"
  /\ tp.todo = {}
  /\ running' = None
  /\ tp' = NoTp
  /\ lastCall' = NoCall
  /\ UNCHANGED <<observed, pc, loc, response, hist, _symbol_locks,
                 _watch_symbols>>
  /\ UNCHANGED unitVars

TpStep == TpWake \/ TpRead \/ TpPrice \/ TpLong \/ TpShort \/ TpSleep

\* One step of the /tv handler h serving payloads of the set P, but for the
\* wait for a contended lock.
HandlerStep(h, P) ==
  \/ \E p \in P : Receive(h, p)
  \/ Dispatch(h)
  \/ OpenRead(h)
  \/ OpenOrder(h)
  \/ EcfRead(h)
  \/ EcfSleep(h)
  \/ EcfReadRetry(h)
  \/ EcfClose(h)
  \/ EcfWake(h)
  \/ EcfReread(h)
  \/ RevOpen(h)
  \/ Respond(h)

\* One request at a time, every kind of payload, with the history kept.  The
\* lock is never contended.
Next == HandlerStep("h1", Payloads)

Spec == Init /\ [][Next]_vars

\* Two requests in flight for one canonical symbol.
PayloadsConc ==
  { GoodPayload(S_BTC_P, "order.reverse", "SELL"),
    GoodPayload(S_btc, "order.reverse", "BUY"),
    GoodPayload(S_btc, "order.open", "BUY") }

NextConc ==
  \E h \in Handlers : HandlerStep(h, PayloadsConc) \/ LockGranted(h)

SpecConc == InitObserving({}) /\ [][NextConc]_vars

\* Two requests in flight, for one canonical symbol or for two.
PayloadsSym ==
  { GoodPayload(S_BTC_P, "order.reverse", "SELL"),
    GoodPayload(S_ETH, "order.open", "BUY") }

NextSym ==
  \E h \in Handlers : HandlerStep(h, PayloadsSym) \/ LockGranted(h)

SpecSym == InitObserving({}) /\ [][NextSym]_vars

\* Two requests in flight for one canonical symbol, valid and invalid ones.
PayloadsLive ==
  { GoodPayload(S_BTC_P, "order.reverse", "SELL"),
    GoodPayload(S_btc, "order.open", "BUY"),
    [GoodPayload(S_btc, "order.reverse", "BUY") EXCEPT !.route = "order.close"],
    [GoodPayload(S_btc, "order.reverse", "BUY") EXCEPT !.target_side = "hold"] }

NextLive ==
  \E h \in Handlers : HandlerStep(h, PayloadsLive) \/ LockGranted(h)

\* The steps of a coroutine that holds the event loop: nothing else runs
\* until it yields, and every gateway call returns or raises.
HandlerRun(h) ==
  \/ Dispatch(h)
  \/ OpenRead(h)
  \/ OpenOrder(h)
  \/ EcfRead(h)
  \/ EcfSleep(h)
  \/ EcfClose(h)
  \/ EcfReread(h)
  \/ RevOpen(h)
  \/ Respond(h)

\* A coroutine put back on the ready queue: its sleep is over, or the lock it
\* waited for was released to it.
Resume(h) == EcfReadRetry(h) \/ EcfWake(h) \/ LockGranted(h)

\* The event loop: the running coroutine goes on to its next await, and the
\* ready queue is served first in first out, so a coroutine on it is resumed
\* however many new requests arrive.
EventLoop ==
  /\ WF_vars(\E h \in Handlers : HandlerRun(h))
  /\ \A h \in Handlers : SF_vars(Resume(h))

SpecLive == InitObserving({}) /\ [][NextLive]_vars /\ EventLoop

\* The server started in either trade mode (lines 22 and 40-47: bg is a
\* BitgetClient whatever TRADE_MODE says), serving one request at a time.
InitMode ==
  /\ InitServer({})
  /\ TRADE_MODE \in {"live", "demo"}
  /\ req = NoReq
  /\ norm = NoNorm
  /\ demo = NoDemo

PayloadsMode ==
  { GoodPayload(S_BTC_P, "order.reverse", "SELL"),
    GoodPayload(S_btc, "order.open", "BUY") }

NextMode == HandlerStep("h1", PayloadsMode)

SpecMode == InitMode /\ [][NextMode]_vars

\* One request at a time beside the take-profit monitor.
PayloadsTp ==
  { GoodPayload(S_BTC_P, "order.reverse", "SELL"),
    GoodPayload(S_btc, "order.open", "BUY") }

NextTp == HandlerStep("h1", PayloadsTp) \/ TpStep

SpecTp == InitObserving({}) /\ [][NextTp]_vars

\* ------------------------------------------------- BitgetClient._request
\* What one HTTP attempt of session.request ends with: a response with a
\* status code whose body is JSON or not, or an exception.
Answer(status, json, exc) == [status |-> status, json |-> json, exc |-> exc]

TransportErrors == {"ConnectionError", "Timeout", "ProtocolError"}

Answers ==
  { Answer(st, TRUE, "") : st \in {200, 304, 400, 429, 500, 503} }
    \cup { Answer(200, FALSE, "") }
    \cup { Answer(0, FALSE, e) : e \in TransportErrors }

\* _request, line 112: 200 <= resp.status_code < 300
IsSuccess(a) == a.exc = "" /\ 200 <= a.status /\ a.status < 300

\* A raise_for_status that lets every status pass.
RaisesForStatusNever(a) == FALSE

\* requests.Response.raise_for_status raises HTTPError for 4xx and 5xx.
RaisesForStatus(a) == a.exc = "" /\ 400 <= a.status /\ a.status < 600

\* _request, line 132: except (ConnectionError, Timeout, ProtocolError)
IsRetried(a) == a.exc \in TransportErrors

\* _request, line 137: backoff = min(backoff * 2.0, 1.5)
RequestNextBackoff(backoff) ==
  IF backoff * 2 < RequestBackoffCap THEN backoff * 2 ELSE RequestBackoffCap

\* _request, lines 91 and 140-143: the next attempt of the loop, or after the
\* last one raise last_exc, or RuntimeError when there is none.
RequestContinue(r) ==
  IF r.attempt < request_max_retry
  THEN [r EXCEPT !.pc = "attempt", !.attempt = @ + 1]
  ELSE [r EXCEPT !.pc = "raised",
                 !.raised = IF r.last_exc # "" THEN r.last_exc
                                               ELSE "RuntimeError"]

\* _request, lines 75-91: the request is prepared and the loop is entered.
RequestStart ==
  /\ req.pc = "idle"
  /\ req' = [NoReq EXCEPT !.pc = "attempt", !.attempt = 1,
                          !.backoff = RequestBackoffStart]
  /\ UNCHANGED <<serverVars, norm, TRADE_MODE, demo>>

\* _request, lines 92-133: one HTTP attempt.
RequestAttempt ==
  /\ req.pc = "attempt"
  /\ \E a \in Answers :
       LET r == [req EXCEPT !.log = Append(@, a)]
       IN  req' =
             IF IsRetried(a)
             THEN [r EXCEPT !.pc = "sleep", !.last_exc = a.exc]
             ELSE IF a.exc # ""
             THEN [r EXCEPT !.pc = "raised", !.raised = a.exc]
             ELSE IF IsSuccess(a)
             THEN IF a.json THEN [r EXCEPT !.pc = "returned"]
                  ELSE [r EXCEPT !.pc = "raised", !.raised = "JSONDecodeError"]
             ELSE IF RaisesForStatus(a)
             THEN [r EXCEPT !.pc = "raised", !.raised = "HTTPError"]
             ELSE RequestContinue(r)
  /\ UNCHANGED <<serverVars, norm, TRADE_MODE, demo>>

\* _request, lines 136-138: time.sleep(backoff), the backoff grows, continue.
RequestSleep ==
  /\ req.pc = "sleep"
  /\ req' = RequestContinue([req EXCEPT !.slept = @ + req.backoff,
                                        !.backoff = RequestNextBackoff(@)])
  /\ UNCHANGED <<serverVars, norm, TRADE_MODE, demo>>

\* _request has returned or raised; the next call starts afresh.
RequestEnd ==
  /\ req.pc \in {"returned", "raised"}
  /\ req' = NoReq
  /\ UNCHANGED <<serverVars, norm, TRADE_MODE, demo>>

NextRequest == RequestStart \/ RequestAttempt \/ RequestSleep \/ RequestEnd

\* One call of BitgetClient._request after another, every answer possible.
SpecRequest == InitObserving({}) /\ [][NextRequest]_vars

\* ------------------------------------------------------- normalize_symbol
\* The pieces the arguments of normalize_symbol are made of: white space, a
\* lower-case letter, a ticker, and the suffixes in both cases.
SymbolPieces ==
  { <<" ">>, <<"b">>, <<"E","T","H">>, S_USDT, <<"u","s","d","t">>,
    S_DOT_P, <<".","p">>, S_UMCBL, <<"_","u","m","c","b","l">> }

\* The strings made of at most n pieces.
RECURSIVE SymbolsOf(_)
SymbolsOf(n) ==
  IF n = 0 THEN { <<>> }
  ELSE LET shorter == SymbolsOf(n - 1)
       IN  shorter \cup { s \o piece : s \in shorter, piece \in SymbolPieces }

Symbols == SymbolsOf(MaxPieces)

\* normalize_symbol is about to be called with one of the strings.
InitNormalize ==
  /\ InitServer({})
  /\ TRADE_MODE = "live"
  /\ req = NoReq
  /\ demo = NoDemo
  /\ \E sym \in Symbols : norm = [NoNorm EXCEPT !.pc = "call", !.sym = sym]

\* normalize_symbol(sym)
Normalize ==
  /\ norm.pc = "call"
  /\ norm' = [norm EXCEPT !.pc = "once", !.out = normalize_symbol(norm.sym)]
  /\ UNCHANGED <<serverVars, req, TRADE_MODE, demo>>

\* normalize_symbol applied to its own result.
NormalizeAgain ==
  /\ norm.pc = "once"
  /\ norm' = [norm EXCEPT !.pc = "twice", !.again = normalize_symbol(norm.out)]
  /\ UNCHANGED <<serverVars, req, TRADE_MODE, demo>>

NextNormalize == Normalize \/ NormalizeAgain

SpecNormalize == InitNormalize /\ [][NextNormalize]_vars

\* ============================================================ DemoExchange
\* The symbols, sides and sizes the simulator is called with.
DemoSymbols == {"BTCUSDT", "ETHUSDT"}
DemoSides == {"BUY", "SELL", "sell"}
DemoSizes == {1, 2}

\* self.positions.get(symbol, 0.0)
positions_get(d, symbol) ==
  IF symbol \in DOMAIN d.positions THEN d.positions[symbol] ELSE 0

\* self.positions[symbol] = v
positions_set(d, symbol, v) ==
  [s \in DOMAIN d.positions \cup {symbol} |->
     IF s = symbol THEN v ELSE d.positions[s]]

\* _new_id: an id no other order has (a fresh uuid); here the order's rank.
_new_id(d, prefix) == <<prefix, Len(d.orders) + 1>>

\* place_market_order, lines 79-90: the position after the order.
MarketPosition(d, symbol, side, size, reduce_only) ==
  LET pos     == positions_get(d, symbol)
      delta   == IF UpperOf(side) = "BUY" THEN size ELSE 0 - size
      new_pos == pos + delta
  IN  IF reduce_only
      THEN IF pos * delta < 0
           THEN positions_set(d, symbol,
                  IF (pos > 0 /\ new_pos > 0) \/ (pos < 0 /\ new_pos < 0)
                  THEN 0 ELSE new_pos)
           ELSE d.positions
      ELSE positions_set(d, symbol, pos + delta)

\* A market order that is stored but leaves no fill.
place_market_order_unfilled(d, symbol, side, size, reduce_only) ==
  [positions |-> MarketPosition(d, symbol, side, size, reduce_only),
   orders    |-> Append(d.orders,
                   [id |-> _new_id(d, "mkt"), symbol |-> symbol,
                    side |-> UpperOf(side), type |-> "MARKET", size |-> size,
                    price |-> mark_price, reduce_only |-> reduce_only,
                    status |-> "filled"]),
   fills     |-> d.fills]

\* place_market_order: the order is stored as filled, its fill is recorded and
\* the position is moved.
place_market_order(d, symbol, side, size, reduce_only) ==
  LET oid   == _new_id(d, "mkt")
      order == [id |-> oid, symbol |-> symbol, side |-> UpperOf(side),
                type |-> "MARKET", size |-> size, price |-> mark_price,
                reduce_only |-> reduce_only, status |-> "filled"]
      fill  == [order_id |-> oid, symbol |-> symbol, side |-> UpperOf(side),
                size |-> size, price |-> mark_price]
  IN  [positions |-> MarketPosition(d, symbol, side, size, reduce_only),
       orders    |-> Append(d.orders, order),
       fills     |-> Append(d.fills, fill)]

\* A limit order that is executed like a market order.
place_limit_order_filled(d, symbol, side, size, price, reduce_only) ==
  LET m == place_market_order(d, symbol, side, size, reduce_only)
  IN  [m EXCEPT !.orders[Len(m.orders)].type = "LIMIT",
                !.orders[Len(m.orders)].status = "open"]

\* place_limit_order: the order is stored as open; nothing else happens.
place_limit_order(d, symbol, side, size, price, reduce_only) ==
  LET order == [id |-> _new_id(d, "lmt"), symbol |-> symbol,
                side |-> UpperOf(side), type |-> "LIMIT", size |-> size,
                price |-> price, reduce_only |-> reduce_only,
                status |-> "open"]
  IN  [d EXCEPT !.orders = Append(@, order)]

\* A close that always sells the size of the position.
close_all_positions_sell(d, symbol) ==
  LET pos == positions_get(d, symbol)
  IN  IF pos = 0 THEN d
      ELSE place_market_order(d, symbol, "SELL",
                              IF pos > 0 THEN pos ELSE 0 - pos, TRUE)

\* close_all_positions: a reduce-only market order of the whole position.
close_all_positions(d, symbol) ==
  LET pos == positions_get(d, symbol)
  IN  IF pos = 0 THEN d
      ELSE place_market_order(d, symbol,
                              IF pos > 0 THEN "SELL" ELSE "BUY",
                              IF pos > 0 THEN pos ELSE 0 - pos, TRUE)

PlaceMarketOrder ==
  /\ Len(demo.orders) < MaxOrders
  /\ \E symbol \in DemoSymbols, side \in DemoSides, size \in DemoSizes,
        reduce_only \in BOOLEAN :
       demo' = place_market_order(demo, symbol, side, size, reduce_only)
  /\ UNCHANGED <<serverVars, req, norm, TRADE_MODE>>

PlaceLimitOrder ==
  /\ Len(demo.orders) < MaxOrders
  /\ \E symbol \in DemoSymbols, side \in DemoSides, size \in DemoSizes,
        reduce_only \in BOOLEAN :
       demo' = place_limit_order(demo, symbol, side, size, mark_price - size,
                                 reduce_only)
  /\ UNCHANGED <<serverVars, req, norm, TRADE_MODE>>

CloseAllPositions ==
  /\ Len(demo.orders) < MaxOrders
  /\ \E symbol \in DemoSymbols : demo' = close_all_positions(demo, symbol)
  /\ UNCHANGED <<serverVars, req, norm, TRADE_MODE>>

NextDemo == PlaceMarketOrder \/ PlaceLimitOrder \/ CloseAllPositions

\* DEMO = DemoExchange(), then any sequence of its operations.
SpecDemo == InitObserving({}) /\ [][NextDemo]_vars

\* ==================================================================== claims
IsOpenCall(c) == c.op = "place_order" /\ c.side \in {"open_long", "open_short"}
IsCloseCall(c) ==
  c.op = "place_order" /\ c.side \in {"close_long", "close_short"}

\* C1: when ensure_close_full gives up (close_not_flat) on a reverse
\* directive, no open order has been or is sent for that directive.
C1_NoOpenAfterCloseNotFlat ==
  \A h \in Handlers :
    loc[h].close_res = "close_not_flat" =>
      /\ hist[h].nOpen = 0
      /\ ~(lastCall.by = h /\ IsOpenCall(lastCall))

\* C1 witness: a directive ended after max_retry close orders that never got
\* the leg flat.
C1_Witness ==
  \E h \in observed :
    /\ pc[h] = "done"
    /\ loc[h].close_res = "close_not_flat"
    /\ hist[h].nClose = max_retry
    /\ response[h].error = "close-failed"

\* A reverse directive to SELL that found {long: L > 0, short: 0}, whose
\* gateway calls all succeeded and whose re-read after the close reported
\* long = 0, and that has ended.
C2_Scenario(h) ==
  /\ pc[h] = "done"
  /\ loc[h].route = "order.reverse"
  /\ loc[h].target_side = "SELL"
  /\ loc[h].attempt = 1
  /\ loc[h].long_sz > 0
  /\ loc[h].short_sz = 0
  /\ loc[h].long2 = 0
  /\ hist[h].allOk

\* The orders of the scenario of C2, the close order being for closeSize.
C2_Orders(h, closeSize) ==
  /\ hist[h].nClose = 1
  /\ hist[h].close =
       [symbol |-> loc[h].symbol, side |-> "close_long",
        orderType |-> "market", size |-> closeSize, reduceOnly |-> TRUE]
  /\ hist[h].nOpen = 1
  /\ hist[h].open =
       [symbol |-> loc[h].symbol, side |-> "open_short",
        orderType |-> loc[h].order_type, size |-> loc[h].size,
        reduceOnly |-> FALSE]
  /\ hist[h].openAfter = 1

\* A reverse directive to SELL sends its open order only once a position
\* read of its own reported long = 0.
C2_OpenOnlyWhenFlat(h) ==
  (loc[h].route = "order.reverse" /\ loc[h].target_side = "SELL"
     /\ hist[h].nOpen > 0) =>
    \/ loc[h].close_res = "already_zero" /\ loc[h].long_sz <= 0
    \/ loc[h].close_res = "flat" /\ loc[h].long2 <= 0

C3_SameDirectionSkip ==
  \A h \in observed :
    ( /\ pc[h] = "done"
      /\ loc[h].route = "order.reverse"
      /\ loc[h].attempt = 1
      /\ hist[h].readOk
      /\ \/ loc[h].target_side = "BUY" /\ loc[h].long_sz > 0
         \/ loc[h].target_side = "SELL" /\ loc[h].short_sz > 0 )
    => /\ hist[h].nClose = 0
       /\ hist[h].nOpen = 0
       /\ response[h].detail = "same-direction-skip"

\* A valid directive that found the position flat, whose gateway calls all
\* succeeded, and that has ended.
C4_FlatDone(h) ==
  /\ pc[h] = "done"
  /\ loc[h].route \in {"order.open", "order.reverse"}
  /\ loc[h].target_side \in {"BUY", "SELL"}
  /\ loc[h].order_type = "market"
  /\ loc[h].size > 0
  /\ hist[h].readOk
  /\ hist[h].allOk
  /\ \/ loc[h].route = "order.open" /\ loc[h].d = <<0, 0>>
     \/ /\ loc[h].route = "order.reverse"
        /\ loc[h].attempt = 1
        /\ loc[h].long_sz = 0
        /\ loc[h].short_sz = 0

\* C4: from a flat position a valid directive sends exactly one order, the
\* open on the target side for the requested quantity, not reduce-only.
C4_FlatToOpen ==
  \A h \in observed :
    C4_FlatDone(h) =>
      /\ hist[h].nClose = 0
      /\ hist[h].nOpen = 1
      /\ hist[h].open =
           [symbol |-> loc[h].symbol,
            side |-> IF loc[h].target_side = "BUY" THEN "open_long"
                                                   ELSE "open_short",
            orderType |-> "market", size |-> loc[h].size,
            reduceOnly |-> FALSE]
      /\ response[h].ok

\* C4 witness: a reverse directive to BUY that found the position flat.
C4_Witness ==
  \E h \in observed :
    /\ C4_FlatDone(h)
    /\ loc[h].route = "order.reverse"
    /\ loc[h].target_side = "BUY"
    /\ hist[h].nOpen = 1

\* C5: two handlers of one canonical symbol are never both inside the locked
\* section, and every gateway call of a handler is made inside its own
\* section while no other handler of that symbol is inside.
C5_PerSymbolSerialization ==
  /\ \A h1 \in Handlers, h2 \in Handlers :
       (h1 # h2 /\ InSection(h1) /\ InSection(h2)) =>
         loc[h1].symbol # loc[h2].symbol
  /\ \A h \in Handlers :
       lastCall.by = h =>
         /\ InSection(h) \/ pc[h] = "done"
         /\ lastCall.symbol = loc[h].symbol
         /\ \A h2 \in Handlers \ {h} :
              InSection(h2) => loc[h2].symbol # lastCall.symbol

\* C5 witness: a directive for "BTCUSDT.P" sleeps between its close order and
\* its re-read while a directive for " btcusdt" waits for the same lock.
C5_Witness ==
  \E h1 \in Handlers, h2 \in Handlers :
    /\ pc[h1] = "ecf_slept2"
    /\ loc[h1].target_side = "SELL"
    /\ pc[h2] = "waiting"
    /\ loc[h2].target_side = "BUY"
    /\ loc[h1].symbol = loc[h2].symbol

\* C6: the take-profit monitor sends no close order for a symbol while a
\* handler is inside the locked section of that symbol.
C6_TpRespectsLock ==
  (lastCall.by = TP /\ IsCloseCall(lastCall)) =>
    \A h \in Handlers :
      ~(InSection(h) /\ loc[h].symbol = lastCall.symbol)

\* C7: a directive all of whose position reads failed is answered ok:false
\* and has sent no order.
C7_FailClosedQuery ==
  \A h \in observed :
    (pc[h] = "done" /\ hist[h].called /\ ~hist[h].readOk) =>
      /\ response[h].kind = "json"
      /\ ~response[h].ok
      /\ hist[h].nClose = 0
      /\ hist[h].nOpen = 0

\* A close order of handler h, sent right after the successful position read
\* of the same attempt (line 105), reduce-only, on the side opposite to the
\* target, and for closeSize.
C8_CloseStep(h, closeSize) ==
  (lastCall'.by = h /\ IsCloseCall(lastCall')) =>
    /\ lastCall.by = h
    /\ lastCall.op = "get_hedge_detail"
    /\ lastCall.line = 105
    /\ lastCall.outcome = "ok"
    /\ loc'[h].attempt = loc[h].attempt
    /\ lastCall'.reduceOnly
    /\ lastCall'.side = (IF loc[h].target_side = "BUY" THEN "close_short"
                                                        ELSE "close_long")
    /\ lastCall'.size = closeSize

\* The size of the leg opposite to the target of h in the position read that
\* the latest step made.
C8_OppositeSizeRead(h) ==
  IF loc[h].target_side = "BUY" THEN lastCall.short ELSE lastCall.long

C9_BoundedCloseRetries ==
  \A h \in observed :
    /\ loc[h].attempt <= max_retry
    /\ hist[h].nClose <= max_retry
    /\ (pc[h] = "done" /\ loc[h].attempt >= 1)
       => loc[h].close_res \in {"already_zero", "flat", "close_not_flat"}

C11_RejectedInvalid(h) == pc[h] = "done" /\ response[h].status \in {400, 401}

\* C11: a directive rejected as invalid has made no gateway call, neither a
\* position read nor an order.
C11_InvalidMakesNoCall ==
  \A h \in observed : C11_RejectedInvalid(h) => ~hist[h].called

\* C12: a directive whose requested quantity is <= 0 is rejected, has made no
\* position read and has sent no order.
C12_NonPositiveSizeRejected ==
  \A h \in observed :
    ( /\ pc[h] = "done"
      /\ loc[h].route \in {"order.open", "order.reverse"}
      /\ loc[h].size <= 0 )
    => /\ ~response[h].ok
       /\ ~hist[h].called
       /\ hist[h].nOpen = 0
       /\ hist[h].nClose = 0

\* C13: a directive whose order type is not market is answered 400 and no
\* order of that type has been placed.
C13_NonMarketRejected ==
  \A h \in observed :
    ( /\ pc[h] = "done"
      /\ loc[h].route \in {"order.open", "order.reverse"}
      /\ loc[h].order_type # "market" )
    => /\ ~response[h].ok
       /\ response[h].status = 400
       /\ hist[h].nOpen = 0

\* C14: every request ends with a structured response, ok:true or ok:false
\* with an error kind; no exception leaves the handler.
C14_StructuredResponse ==
  \A h \in Handlers :
    pc[h] = "done" =>
      /\ response[h].kind = "json"
      /\ response[h].ok \/ response[h].error # ""

\* C15: once a close order of a directive was answered with an exchange
\* error (HTTP error response), the reconciler sends no further close order
\* for that directive.
C15_ExchangeErrorNotRetried ==
  [][\A h \in Handlers :
       (lastCall'.by = h /\ IsCloseCall(lastCall')) =>
         loc[h].last_detail # "http"]_vars

\* An order.open directive to BUY or SELL whose gateway calls all succeeded
\* and that has ended.
C17_OpenDone(h) ==
  /\ pc[h] = "done"
  /\ loc[h].route = "order.open"
  /\ loc[h].target_side \in {"BUY", "SELL"}
  /\ hist[h].readOk
  /\ hist[h].allOk

\* C17: whatever position the read reports, an order.open directive sends no
\* close order and exactly one open order, on the target side, for the
\* requested quantity, not reduce-only.
C17_OpenUnconditional ==
  \A h \in observed :
    C17_OpenDone(h) =>
      /\ loc[h].d \in Sizes \X Sizes
      /\ hist[h].nClose = 0
      /\ hist[h].nOpen = 1
      /\ hist[h].open.symbol = loc[h].symbol
      /\ hist[h].open.side = (IF loc[h].target_side = "BUY" THEN "open_long"
                                                            ELSE "open_short")
      /\ hist[h].open.size = loc[h].size
      /\ hist[h].open.reduceOnly = FALSE
      /\ response[h].ok

\* C17 witness: order.open to SELL while both legs are held.
C17_Witness ==
  \E h \in observed :
    /\ C17_OpenDone(h)
    /\ loc[h].target_side = "SELL"
    /\ loc[h].d = <<Lot, Dust>>
    /\ loc[h].size = ReqQty
    /\ hist[h].nOpen = 1

\* The answer to the latest HTTP attempt of _request.
C16_LastAnswer == req.log[Len(req.log)]

\* A transient infrastructure error: a connection reset, a timeout, a 5xx or
\* a 429 response.
C16_Transient(a) ==
  \/ a.exc \in {"ConnectionError", "Timeout"}
  \/ a.exc = "" /\ (a.status = 429 \/ a.status >= 500)

\* C16: _request raises on a transient infrastructure error only after
\* request_max_retry attempts, each failed one followed by a backoff sleep.
C16_TransientRetried ==
  (req.pc = "raised" /\ C16_Transient(C16_LastAnswer)) =>
    /\ Len(req.log) = request_max_retry
    /\ req.slept > 0

\* C18: normalize_symbol is idempotent on every string, and "BTCUSDT.P" and
\* "BTCUSDT_UMCBL" normalize to the same symbol.
C18_NormalizeIdempotent ==
  /\ norm.pc = "twice" => norm.again = norm.out
  /\ normalize_symbol(S_BTC_P) = normalize_symbol(S_BTCUSDT_UMCBL)

\* C19: the result of normalize_symbol is upper case and carries the suffix
\* _UMCBL, whatever the argument.
C19_NormalizeCanonical ==
  norm.pc \in {"once", "twice"} =>
    /\ norm.out = upper(norm.out)
    /\ endswith(norm.out, S_UMCBL)

\* C20: a handler has to wait for its lock only when another handler of the
\* same canonical symbol is inside the locked section or waits for it; the
\* lock of another symbol never makes it wait.
C20_WaitsOnlyForOwnSymbol ==
  [][\A h \in Handlers :
       (pc[h] = "idle" /\ pc'[h] = "waiting") =>
         \E h2 \in Handlers \ {h} :
           /\ loc[h2].symbol = loc'[h].symbol
           /\ InSection(h2) \/ pc[h2] = "waiting"]_vars

\* C20 witness: a directive for ETHUSDT_UMCBL has run from its arrival to its
\* answer ok:true while a directive for BTCUSDT_UMCBL sleeps between its close
\* order and its re-read, holding the lock of BTCUSDT_UMCBL.
C20_Witness ==
  \E h1 \in Handlers, h2 \in Handlers :
    /\ pc[h1] = "ecf_slept2"
    /\ loc[h1].symbol = S_BTCUSDT_UMCBL
    /\ _symbol_locks[S_BTCUSDT_UMCBL].locked
    /\ pc[h2] = "done"
    /\ loc[h2].symbol = normalize_symbol(S_ETH)
    /\ loc[h2].symbol # loc[h1].symbol
    /\ ~_symbol_locks[loc[h2].symbol].locked
    /\ response[h2].ok
    /\ lastCall.by = h2
    /\ IsOpenCall(lastCall)

\* C21: with TRADE_MODE demo no handler places an order through BitgetClient.
C21_DemoSendsNoOrder ==
  TRADE_MODE = "demo" =>
    ~(lastCall.by \in Handlers /\ lastCall.op = "place_order")

\* C22: the lock map is lazy and monotone: a step never removes a symbol nor
\* replaces its lock object, a lock appears only when a directive for that
\* symbol reaches the lock line, and such a directive finds its symbol's lock
\* in the map.
C22_LockMapLazyMonotone ==
  [][ /\ \A s \in DOMAIN _symbol_locks :
           /\ s \in DOMAIN _symbol_locks'
           /\ _symbol_locks'[s].id = _symbol_locks[s].id
      /\ \A s \in (DOMAIN _symbol_locks') \ (DOMAIN _symbol_locks) :
           \E h \in Handlers :
             /\ pc[h] = "idle"
             /\ pc'[h] \in {"dispatch", "waiting"}
             /\ loc'[h].symbol = s
      /\ \A h \in Handlers :
           (pc[h] = "idle" /\ pc'[h] \in {"dispatch", "waiting"}) =>
             loc'[h].symbol \in DOMAIN _symbol_locks' ]_vars

\* Two locks exist, and a second directive for the later symbol waits on the
\* lock object the first one created.
C22_Witness ==
  /\ Cardinality(DOMAIN _symbol_locks) = 2
  /\ \E h \in Handlers :
       /\ pc[h] = "waiting"
       /\ _symbol_locks[loc[h].symbol].id = 1
       /\ _symbol_locks[loc[h].symbol].locked
       /\ _symbol_locks[loc[h].symbol].waiters = <<h>>

\* C23: the symbol lock is never held forever: a directive inside the locked
\* section eventually leaves it, and a directive waiting for the lock
\* eventually has its response.
C23_LockEventuallyReleased ==
  \A h \in Handlers :
    /\ InSection(h) ~> ~InSection(h)
    /\ (pc[h] = "waiting") ~> (pc[h] = "done")

\* A directive left the section with close-failed, the lock is free, and
\* another directive for the symbol is waiting to be resumed with it.
C23_Witness ==
  \E h \in Handlers, g \in Handlers :
    /\ pc[h] = "done"
    /\ response[h].error = "close-failed"
    /\ pc[g] = "waiting"
    /\ ~_symbol_locks[loc[g].symbol].locked
    /\ Head(_symbol_locks[loc[g].symbol].waiters) = g

\* The order the latest step stored, when it stored one.
DemoPlaced == Len(demo'.orders) = Len(demo.orders) + 1
DemoOrder == demo'.orders[Len(demo'.orders)]
DemoAbs(x) == IF x < 0 THEN 0 - x ELSE x
DemoSign(x) == IF x < 0 THEN 0 - 1 ELSE IF x > 0 THEN 1 ELSE 0

\* C24: a reduce-only market order only decreases exposure: the new position
\* is zero or has the sign of the old one and is not larger; against the
\* position with a size up to it the magnitude drops by exactly the size, and
\* with a larger size the position ends at zero.
C24_ReduceOnlyReduces ==
  [][ (DemoPlaced /\ DemoOrder.type = "MARKET" /\ DemoOrder.reduce_only) =>
        LET p       == positions_get(demo, DemoOrder.symbol)
            n       == positions_get(demo', DemoOrder.symbol)
            s       == DemoOrder.size
            against == \/ p > 0 /\ DemoOrder.side = "SELL"
                       \/ p < 0 /\ DemoOrder.side = "BUY"
        IN  /\ n = 0 \/ DemoSign(n) = DemoSign(p)
            /\ DemoAbs(n) <= DemoAbs(p)
            /\ (against /\ s <= DemoAbs(p)) => DemoAbs(n) = DemoAbs(p) - s
            /\ (against /\ s > DemoAbs(p)) => n = 0 ]_vars

\* C30: a limit order is registered only: the step stores one open LIMIT
\* order and leaves every position and the fills as they were; every fill
\* belongs to a MARKET order.
C30_LimitOrderRegisteredOnly ==
  [][ /\ (DemoPlaced /\ DemoOrder.type = "LIMIT") =>
           /\ DemoOrder.status = "open"
           /\ SubSeq(demo'.orders, 1, Len(demo.orders)) = demo.orders
           /\ \A s \in DemoSymbols :
                positions_get(demo', s) = positions_get(demo, s)
           /\ demo'.fills = demo.fills
      /\ \A i \in 1..Len(demo'.fills) :
           \E j \in 1..Len(demo'.orders) :
             /\ demo'.orders[j].id = demo'.fills[i].order_id
             /\ demo'.orders[j].type = "MARKET" ]_vars

\* A limit order against an open position was stored after a market order.
C30_Witness ==
  /\ Len(demo.orders) >= 2
  /\ demo.orders[Len(demo.orders)].type = "LIMIT"
  /\ demo.orders[Len(demo.orders)].reduce_only
  /\ demo.orders[Len(demo.orders)].side = "SELL"
  /\ positions_get(demo, demo.orders[Len(demo.orders)].symbol) > 0
  /\ Len(demo.fills) = Len(demo.orders) - 1

\* C27: an invalid directive (unsupported route, or target side neither BUY
\* nor SELL) never waits for the symbol lock.
C27_InvalidNeverWaits ==
  \A h \in Handlers :
    pc[h] = "waiting" =>
      /\ loc[h].route \in {"order.open", "order.reverse"}
      /\ loc[h].target_side \in {"BUY", "SELL"}

\* C25: a residual of the leg being closed that is positive but too small
\* to be written as an order quantity is taken for flat by the re-check
\* after the close: the reverse goes on to its open order.
C25_DustIsFlat ==
  [][ \A h \in Handlers :
        ( /\ pc[h] = "ecf_reread"
          /\ lastCall'.by = h
          /\ lastCall'.line = 142
          /\ lastCall'.outcome = "ok"
          /\ LET r == LegSize(SideToClose(loc[h].target_side),
                              lastCall'.long, lastCall'.short)
             IN  r > 0 /\ _fmt_qty(r) = 0 )
        => (pc'[h] = "rev_open" /\ loc'[h].close_res = "flat") ]_vars

\* C26: when a reverse directive has issued its open order, its latest
\* successful position read reported the leg to close as zero; a failed
\* re-read does not count as one.
C26_OpenOnFreshFlatness ==
  \A h \in observed :
    (loc[h].route = "order.reverse" /\ hist[h].nOpen > 0) =>
      /\ hist[h].lastRead # <<>>
      /\ LegSize(SideToClose(loc[h].target_side),
                 hist[h].lastRead[1], hist[h].lastRead[2]) = 0

\* A reverse opened in its second attempt or later, after a close order: an
\* earlier attempt was not flat.
C26_Witness ==
  \E h \in observed :
    /\ loc[h].route = "order.reverse"
    /\ hist[h].nOpen > 0
    /\ hist[h].nClose > 0
    /\ loc[h].attempt >= 2
    /\ loc[h].close_res = "flat"

\* A 2xx response, and a 4xx or 5xx response.
C28_Is2xx(a) == a.exc = "" /\ a.status >= 200 /\ a.status <= 299
C28_Is4xx5xx(a) == a.exc = "" /\ a.status >= 400 /\ a.status <= 599

\* C28: _request makes at most request_max_retry attempts; the first 2xx or
\* 4xx/5xx response ends the call, a 4xx/5xx one by raising HTTPError; it
\* returns only with a 2xx response whose body parsed; and after
\* request_max_retry transport failures it raises the last of them.
C28_RequestOutcome ==
  LET log == req.log
      n   == Len(log)
  IN  /\ n <= request_max_retry
      /\ \A i \in 1..(n - 1) : ~C28_Is2xx(log[i]) /\ ~C28_Is4xx5xx(log[i])
      /\ req.pc = "returned" => (n >= 1 /\ C28_Is2xx(log[n]) /\ log[n].json)
      /\ (n >= 1 /\ C28_Is4xx5xx(log[n])) =>
           (req.pc = "raised" /\ req.raised = "HTTPError")
      /\ (req.pc = "raised" /\ n >= 1 /\ log[n].exc \in TransportErrors) =>
           (n = request_max_retry /\ req.raised = log[n].exc)
      /\ (n = request_max_retry /\ req.pc \notin {"attempt", "sleep"}
            /\ \A i \in 1..n : log[i].exc \in TransportErrors) =>
           (req.pc = "raised" /\ req.raised = log[n].exc)

\* The call was given up after request_max_retry transport failures, the
\* last of another kind than the first.
C28_Witness ==
  /\ req.pc = "raised"
  /\ Len(req.log) = request_max_retry
  /\ \A i \in 1..Len(req.log) : req.log[i].exc \in TransportErrors
  /\ req.log[1].exc # req.log[Len(req.log)].exc
  /\ req.raised = req.log[Len(req.log)].exc

\* The pcs of a handler inside the loop of ensure_close_full.
C29_LoopPcs ==
  {"ecf_read", "ecf_close", "ecf_sleep1", "ecf_slept1", "ecf_sleep2",
   "ecf_slept2", "ecf_reread"}

\* The wait of attempt n: 0.30 s times 1.5 for every attempt before it, at
\* most 1.2 s.
RECURSIVE C29_BackoffAt(_)
C29_BackoffAt(n) ==
  IF n <= 1 THEN BackoffStart
  ELSE LET grown == (C29_BackoffAt(n - 1) * 3) \div 2
       IN  IF grown > BackoffCap THEN BackoffCap ELSE grown

\* C29: in the loop of ensure_close_full the wait of attempt n is 0.30 s
\* multiplied by 1.5 once for every earlier attempt, whichever way that
\* attempt ended, capped at 1.2 s; it never decreases from one step to the
\* next.
C29_CappedBackoff ==
  [][ \A h \in Handlers :
        pc'[h] \in C29_LoopPcs =>
          /\ loc'[h].backoff = C29_BackoffAt(loc'[h].attempt)
          /\ loc'[h].backoff >= BackoffStart
          /\ loc'[h].backoff <= BackoffCap
          /\ pc[h] \in C29_LoopPcs => loc'[h].backoff >= loc[h].backoff
    ]_vars

\* The fifth attempt is about to wait the capped 1.2 s after its close.
C29_Witness ==
  \E h \in Handlers :
    /\ pc[h] = "ecf_sleep2"
    /\ loc[h].attempt = 5
    /\ loc[h].backoff = BackoffCap
    /\ (C29_BackoffAt(4) * 3) \div 2 > BackoffCap

\* C31: every order sent from inside ensure_close_full is the reduce-only
\* close of the leg it was asked to close: close_long for LONG, close_short
\* for SHORT, never an open order, whatever the reads say of the other leg.
C31_ClosesOnlyAskedLeg ==
  [][ \A h \in Handlers :
        ( /\ pc[h] \in C29_LoopPcs
          /\ lastCall'.by = h
          /\ lastCall'.op = "place_order" )
        => /\ lastCall'.reduceOnly
           /\ ~IsOpenCall(lastCall')
           /\ lastCall'.side =
                IF SideToClose(loc[h].target_side) = "LONG"
                THEN "close_long" ELSE "close_short" ]_vars

\* The long leg is being closed while the read showed a short leg as well.
C31_Witness ==
  \E h \in Handlers :
    /\ pc[h] = "ecf_sleep2"
    /\ SideToClose(loc[h].target_side) = "LONG"
    /\ loc[h].long_sz > 0
    /\ loc[h].short_sz > loc[h].long_sz
    /\ lastCall.by = h
    /\ lastCall.side = "close_long"

\* An order of the take-profit poller: a reduce-only close, never an open,
\* for the symbol of this iteration, which is watched, of a leg whose size
\* and average price read are both > 0, and for the quantity sizeOf gives for
\* that leg's size.
C32_OrderStep(sizeOf(_)) ==
  (lastCall'.by = TP /\ lastCall'.op = "place_order") =>
    /\ lastCall'.reduceOnly
    /\ ~IsOpenCall(lastCall')
    /\ lastCall'.side \in {"close_long", "close_short"}
    /\ lastCall'.symbol = tp.sym
    /\ lastCall'.symbol \in _watch_symbols
    /\ LET sz  == IF lastCall'.side = "close_long" THEN tp.long_sz
                                                   ELSE tp.short_sz
           avg == IF lastCall'.side = "close_long" THEN tp.long_avg
                                                   ELSE tp.short_avg
       IN  sz > 0 /\ avg > 0 /\ lastCall'.size = sizeOf(sz)

\* The sizes the poller works with in an iteration are those of the
\* successful position read that began the iteration.
C32_SizesOfThisIteration ==
  tp'.pc \in {"price", "long", "short"} =>
    IF tp.pc = "next"
    THEN /\ lastCall'.by = TP
         /\ lastCall'.op = "get_hedge_detail"
         /\ lastCall'.outcome = "ok"
         /\ tp'.sym = lastCall'.symbol
         /\ tp'.long_sz = lastCall'.long
         /\ tp'.short_sz = lastCall'.short
    ELSE /\ tp'.sym = tp.sym
         /\ tp'.long_sz = tp.long_sz
         /\ tp'.short_sz = tp.short_sz
         /\ tp'.long_avg = tp.long_avg
         /\ tp'.short_avg = tp.short_avg

C32_Formatted(sz) == _fmt_qty(sz)
C32_Unformatted(sz) == sz

C33_WatchGrowsOnSuccess ==
  [][ /\ _watch_symbols \subseteq _watch_symbols'
      /\ \A s \in _watch_symbols' \ _watch_symbols :
           /\ IsOpenCall(lastCall')
           /\ lastCall'.outcome = "ok"
           /\ lastCall'.symbol = s
           /\ \E h \in Handlers :
                /\ lastCall'.by = h
                /\ loc[h].symbol = s
                /\ pc'[h] = "done"
                /\ response'[h].ok ]_vars

\* Both symbols are watched, one since the open order of the latest step,
\* sent while the other handler sleeps in its reconciliation.
C33_Witness ==
  /\ Cardinality(_watch_symbols) = 2
  /\ IsOpenCall(lastCall)
  /\ lastCall.outcome = "ok"
  /\ lastCall.symbol \in _watch_symbols
  /\ \E h \in Handlers : pc[h] = "ecf_slept2" /\ lastCall.by # h

\* C34: close_all_positions flattens: after it the position of its symbol is
\* exactly 0 and the positions of the other symbols are as before; on a
\* position that is already 0 it stores no order and no fill.
C34_CloseAllFlattens ==
  [][ \A symbol \in DemoSymbols :
        demo' = close_all_positions(demo, symbol) =>
          /\ positions_get(demo', symbol) = 0
          /\ \A other \in DemoSymbols \ {symbol} :
               positions_get(demo', other) = positions_get(demo, other)
          /\ positions_get(demo, symbol) = 0 =>
               (demo'.orders = demo.orders /\ demo'.fills = demo.fills) ]_vars

\* A position built by two orders was closed by one order of its whole size,
\* which no caller asks for directly.
C34_Witness ==
  /\ Len(demo.orders) = 3
  /\ demo.orders[3].reduce_only
  /\ demo.orders[3].type = "MARKET"
  /\ demo.orders[3].size \notin DemoSizes
  /\ demo.orders[3].size = demo.orders[1].size + demo.orders[2].size
  /\ positions_get(demo, demo.orders[3].symbol) = 0

\* The BUY sizes minus the SELL sizes of the first n orders for symbol s.
RECURSIVE C35_Net(_, _, _)
C35_Net(orders, s, n) ==
  IF n = 0 THEN 0
  ELSE C35_Net(orders, s, n - 1)
         + (IF orders[n].symbol # s THEN 0
            ELSE IF orders[n].side = "BUY" THEN orders[n].size
            ELSE 0 - orders[n].size)

\* C35: every market order is stored as filled and has exactly one fill, of
\* its symbol, side and size; there are as many fills as market orders; and
\* when only non-reduce-only market orders were placed, every position is
\* the sum of its BUY sizes minus the sum of its SELL sizes.
C35_FillAccounting ==
  LET orders  == demo.orders
      fills   == demo.fills
      markets == { i \in 1..Len(orders) : orders[i].type = "MARKET" }
  IN  /\ \A i \in markets :
           /\ orders[i].status = "filled"
           /\ Cardinality({ j \in 1..Len(fills) :
                              fills[j].order_id = orders[i].id }) = 1
           /\ \A j \in 1..Len(fills) :
                fills[j].order_id = orders[i].id =>
                  /\ fills[j].symbol = orders[i].symbol
                  /\ fills[j].side = orders[i].side
                  /\ fills[j].size = orders[i].size
      /\ Len(fills) = Cardinality(markets)
      /\ (\A i \in 1..Len(orders) :
            orders[i].type = "MARKET" /\ ~orders[i].reduce_only) =>
           \A s \in DemoSymbols :
             positions_get(demo, s) = C35_Net(orders, s, Len(orders))

\* Three plain market orders, buying and selling one symbol, left a position.
C35_Witness ==
  /\ Len(demo.orders) = 3
  /\ Len(demo.fills) = 3
  /\ \A i \in 1..3 :
       /\ demo.orders[i].type = "MARKET"
       /\ ~demo.orders[i].reduce_only
       /\ demo.orders[i].symbol = demo.orders[1].symbol
  /\ demo.orders[1].side = "BUY"
  /\ demo.orders[2].side = "SELL"
  /\ positions_get(demo, demo.orders[1].symbol) # 0

====
